---- MODULE Spec2Model ----
(***************************************************************************)
(* GoGoManager: the HTTP handlers of src/handlers (auth, user, department, *)
(* employee) over the relational store, as a state machine.  A request is  *)
(* one action of the sequential specifications (Spec, SpecUser) and one    *)
(* action per await point of the concurrent one (SpecRace).  SpecRender    *)
(* renders the statements the handlers build.                              *)
(***************************************************************************)
EXTENDS Integers, Sequences, FiniteSets, TLC

VARIABLES
    users,        \* table users: set of rows
    departments,  \* table departments: set of rows
    employees,    \* table employees: set of rows
    nextId,       \* the next value Uuid::new_v4() returns
    now,          \* the clock read by Utc::now(), in seconds
    constraints,  \* whether the deployed schema declares UNIQUE / FOREIGN KEY
    leeway,       \* the leeway of Validation::new in the jsonwebtoken built in
    last,         \* the request handled last and its answer
    reqs,         \* requests in flight, one per worker slot (SpecRace)
    rendered,     \* the statement rendered last by a list endpoint (SpecList)
    upload        \* the upload being read by upload_file, chunk by chunk

vars == <<users, departments, employees, nextId, now, constraints, leeway, last, reqs,
          rendered, upload>>

----------------------------------------------------------------------------
(* Bounds of the model *)

MaxTime == 1
MaxIds == 3
MaxRows == 2

----------------------------------------------------------------------------
(* Values *)

None == "<none>"

\* A hyphenated UUID: 36 characters.
UuidStr(n) == "00000000-0000-0000-0000-00000000000" \o ToString(n)

Ids == 1..MaxIds

\* Uuid::parse_str: 0 stands for Err.
ParseUuid(s) == IF \E n \in Ids : s = UuidStr(n)
                THEN CHOOSE n \in Ids : s = UuidStr(n)
                ELSE 0

\* A 36-character string that is no UUID, and a string of another length.
NotUuid36 == "zzzzzzzz-zzzz-zzzz-zzzz-zzzzzzzzzzzz"
ShortId == "dept-1"

GoodUrl == "http://img.io/a.png"
BadUrl == "not a url"

\* validator's `url` rule: the string parses as a URL.
ValidUrl(s) == s \in {GoodUrl, "http://img.io/b.png", "http://localhost/a.png"}

\* validator's `length(min, max)` rule.
ValidLength(s, min, max) == Len(s) >= min /\ Len(s) <= max

----------------------------------------------------------------------------
(* Bearer tokens: src/utils/jwt.rs *)

\* The Authorization header of a request.
NoHeader == [kind |-> "none", sub |-> "", exp |-> 0, signed |-> FALSE]
EmptyBearer == [kind |-> "empty", sub |-> "", exp |-> 0, signed |-> FALSE]
Token(sub, exp, signed) == [kind |-> "token", sub |-> sub, exp |-> exp, signed |-> signed]

\* headers.get("Authorization") ... split_whitespace().nth(1)
HasToken(h) == h.kind = "token"

\* Validation::new(HS256) takes the leeway the library defaults to: none in
\* jsonwebtoken 7 and earlier, 60 seconds from 8 on.
Leeways == {0, 60}

\* The reading of the clock when the first request arrives: late enough for
\* a token to have expired by more than any leeway.
StartTime == 100

SecondsPerDay == 86400

\* decode::<Claims>(token, secret, Validation::new(HS256)): signature, then
\* exp, which fails when exp < now - leeway.
validate_token(h, t) == h.signed /\ ~(h.exp + leeway < t)

\* The gate of the department, employee and file handlers.
GateOk(h, t) == HasToken(h) /\ validate_token(h, t)

\* The headers a client of the department and employee endpoints sends.
OrgHeaders == {NoHeader, EmptyBearer,
               Token(UuidStr(1), StartTime + MaxTime, FALSE),
               Token(UuidStr(1), 0, TRUE),
               Token(UuidStr(1), StartTime + MaxTime, TRUE),
               Token("a@b.com", StartTime + MaxTime, TRUE)}

----------------------------------------------------------------------------
(* The answer to a request *)

NoFields == {}

Answer(op, resp, gate, bodyOk, present, stmts) ==
    [op |-> op, resp |-> resp, gate |-> gate, bodyOk |-> bodyOk,
     present |-> present, stmts |-> stmts, token |-> NoHeader,
     body |-> <<>>]

NoRequest == Answer("none", "none", FALSE, FALSE, NoFields, {})

\* A handler that panics sends no response: the connection is dropped.
Panic == "Panic"

----------------------------------------------------------------------------
(* Departments: src/handlers/department.rs *)

DepartmentNames == {"Sales", "Legal"}
DepartmentNameInputs == DepartmentNames \cup {"HR"}
PathIds == {UuidStr(n) : n \in Ids} \cup {NotUuid36}

\* NewDepartment / DepartmentUpdate: #[validate(length(min = 4, max = 33))]
ValidDepartment(name) == ValidLength(name, 4, 33)

\* SELECT name FROM departments WHERE name = $1
DepartmentNameExists(name) == \E d \in departments : d.name = name

\* SELECT * FROM departments WHERE department_id = $1
DepartmentExists(id) == \E d \in departments : d.department_id = id

\* The employee check of delete_department finding no row.
EmployeesOfNone(id) == {}

\* SELECT * FROM employees WHERE department_id = $1
EmployeesOf(id) == {e \in employees : e.department_id = id}

\* The schema's UNIQUE(name) on departments, when declared.
DepartmentUniqueOk(rows) ==
    constraints => \A a, b \in rows : a.name = b.name => a = b

create_department(h, name) ==
    LET op == "create_department"
        ok == ValidDepartment(name)
        row == [department_id |-> nextId, name |-> name,
                created_at |-> now, updated_at |-> now]
    IN  /\ nextId <= MaxIds
        /\ Cardinality(departments) < MaxRows
        /\ IF ~GateOk(h, now)
           THEN /\ last' = Answer(op, "Unauthorized", FALSE, ok, NoFields, {})
                /\ UNCHANGED <<departments, nextId>>
           ELSE IF ~ok
           THEN /\ last' = Answer(op, "BadRequest", TRUE, ok, NoFields, {})
                /\ UNCHANGED <<departments, nextId>>
           ELSE IF DepartmentNameExists(name)
           THEN /\ last' = Answer(op, "Conflict", TRUE, ok, NoFields, {"SELECT"})
                /\ UNCHANGED <<departments, nextId>>
           ELSE IF ~DepartmentUniqueOk(departments \cup {row})
           THEN /\ last' = Answer(op, "InternalServerError", TRUE, ok, NoFields,
                                  {"SELECT", "INSERT"})
                /\ UNCHANGED <<departments, nextId>>
           ELSE /\ last' = Answer(op, "Created", TRUE, ok, NoFields, {"SELECT", "INSERT"})
                /\ departments' = departments \cup {row}
                /\ nextId' = nextId + 1
        /\ UNCHANGED <<users, employees, now, constraints, leeway, upload, reqs, rendered>>

\* A department row with its name changed and nothing else.
DepartmentRenamed(d, name, t) == [d EXCEPT !.name = name]

\* UPDATE departments SET name = $1, updated_at = $2
DepartmentUpdated(d, name, t) == [d EXCEPT !.name = name, !.updated_at = t]

update_department(h, path, name) ==
    LET op == "update_department"
        ok == ValidDepartment(name)
        id == ParseUuid(path)
        rows == {IF d.department_id = id
                 THEN DepartmentUpdated(d, name, now)
                 ELSE d : d \in departments}
    IN  /\ IF ~GateOk(h, now)
           THEN /\ last' = Answer(op, "Unauthorized", FALSE, ok, {"name"}, {})
                /\ UNCHANGED departments
           ELSE IF ~ok
           THEN /\ last' = Answer(op, "BadRequest", TRUE, ok, {"name"}, {})
                /\ UNCHANGED departments
           ELSE IF id = 0
           THEN /\ last' = Answer(op, "BadRequest", TRUE, ok, {"name"}, {})
                /\ UNCHANGED departments
           ELSE IF ~DepartmentExists(id)
           THEN /\ last' = Answer(op, "NotFound", TRUE, ok, {"name"}, {"SELECT"})
                /\ UNCHANGED departments
           ELSE IF ~DepartmentUniqueOk(rows)
           THEN /\ last' = Answer(op, "InternalServerError", TRUE, ok, {"name"},
                                  {"SELECT", "UPDATE"})
                /\ UNCHANGED departments
           ELSE /\ last' = Answer(op, "Ok", TRUE, ok, {"name"}, {"SELECT", "UPDATE"})
                /\ departments' = rows
        /\ UNCHANGED <<users, employees, nextId, now, constraints, leeway, upload, reqs, rendered>>

\* The schema's FOREIGN KEY employees.department_id, when declared.
DepartmentDeleteOk(id) == constraints => EmployeesOf(id) = {}

delete_department(h, path) ==
    LET op == "delete_department"
        id == ParseUuid(path)
    IN  /\ IF ~GateOk(h, now)
           THEN /\ last' = Answer(op, "Unauthorized", FALSE, TRUE, NoFields, {})
                /\ UNCHANGED departments
           ELSE IF id = 0
           THEN /\ last' = Answer(op, "BadRequest", TRUE, TRUE, NoFields, {})
                /\ UNCHANGED departments
           ELSE IF ~DepartmentExists(id)
           THEN /\ last' = Answer(op, "NotFound", TRUE, TRUE, NoFields, {"SELECT"})
                /\ UNCHANGED departments
           ELSE IF EmployeesOf(id) # {}
           THEN /\ last' = Answer(op, "Conflict", TRUE, TRUE, NoFields, {"SELECT"})
                /\ UNCHANGED departments
           ELSE IF ~DepartmentDeleteOk(id)
           THEN /\ last' = Answer(op, "InternalServerError", TRUE, TRUE, NoFields,
                                  {"SELECT", "DELETE"})
                /\ UNCHANGED departments
           ELSE /\ last' = Answer(op, "Ok", TRUE, TRUE, NoFields, {"SELECT", "DELETE"})
                /\ departments' = {d \in departments : d.department_id # id}
        /\ UNCHANGED <<users, employees, nextId, now, constraints, leeway, upload, reqs, rendered>>

----------------------------------------------------------------------------
(* Employees: src/handlers/employee.rs *)

IdentityNumbers == {"11111", "22222"}
EmployeeFields == {"identity_number", "name", "employee_image_uri", "gender",
                   "department_id"}

\* fn validate_gender
validate_gender(gender) == gender = "male" \/ gender = "female"

\* The rule of each field of NewEmployee and EmployeeUpdate.
ValidEmployeeField(f, v) ==
    CASE f = "identity_number" -> ValidLength(v, 5, 33)
      [] f = "name" -> ValidLength(v, 4, 33)
      [] f = "employee_image_uri" -> ValidUrl(v)
      [] f = "gender" -> validate_gender(v)
      [] f = "department_id" -> ValidLength(v, 36, 36)

\* The fields of a payload that are present (Some).
Present(p) == {f \in DOMAIN p : p[f] # None}

\* derive(Validate): a rule applies to an Option field only when it is Some.
ValidEmployee(p) == \A f \in Present(p) : ValidEmployeeField(f, p[f])

\* The bodies of POST /v1/employee: valid ones over these values, and one with
\* each rule broken.
ValidNewEmployees ==
    [identity_number : IdentityNumbers, name : {"Alice"},
     employee_image_uri : {None}, gender : {"male"},
     department_id : {UuidStr(1), UuidStr(2)}]
    \cup
    {[identity_number |-> "22222", name |-> "Bobby",
      employee_image_uri |-> GoodUrl, gender |-> "female",
      department_id |-> UuidStr(1)]}

BaseEmployee == [identity_number |-> "11111", name |-> "Alice",
                 employee_image_uri |-> None, gender |-> "male",
                 department_id |-> UuidStr(1)]

NewEmployees ==
    ValidNewEmployees \cup
    {[BaseEmployee EXCEPT !.identity_number = "123"],
     [BaseEmployee EXCEPT !.name = "Al"],
     [BaseEmployee EXCEPT !.employee_image_uri = BadUrl],
     [BaseEmployee EXCEPT !.gender = "other"],
     [BaseEmployee EXCEPT !.department_id = ShortId],
     [BaseEmployee EXCEPT !.department_id = NotUuid36]}

\* An existence check that finds every identity number.
IdentityNumberAssumed(idn) == TRUE

\* SELECT EXISTS(SELECT 1 FROM employees WHERE identity_number = $1)
IdentityNumberExists(idn) == \E e \in employees : e.identity_number = idn

\* The schema's UNIQUE(identity_number) and FOREIGN KEY(department_id), when
\* declared.
EmployeeConstraintsOk(rows) ==
    constraints =>
        /\ \A a, b \in rows : a.identity_number = b.identity_number => a = b
        /\ \A a \in rows : DepartmentExists(a.department_id)

create_employee(h, p) ==
    LET op == "create_employee"
        ok == ValidEmployee(p)
        dep == ParseUuid(p.department_id)
        row == [employee_id |-> nextId, identity_number |-> p.identity_number,
                name |-> p.name, employee_image_uri |-> p.employee_image_uri,
                gender |-> p.gender, department_id |-> dep,
                created_at |-> now, updated_at |-> now]
    IN  /\ nextId <= MaxIds
        /\ Cardinality(employees) < MaxRows
        /\ IF ~ok
           THEN /\ last' = Answer(op, "BadRequest", GateOk(h, now), ok, Present(p), {})
                /\ UNCHANGED <<employees, nextId>>
           ELSE IF ~GateOk(h, now)
           THEN /\ last' = Answer(op, "Unauthorized", FALSE, ok, Present(p), {})
                /\ UNCHANGED <<employees, nextId>>
           ELSE IF IdentityNumberExists(p.identity_number)
           THEN /\ last' = Answer(op, "Conflict", TRUE, ok, Present(p), {"SELECT"})
                /\ UNCHANGED <<employees, nextId>>
           ELSE IF dep = 0
           THEN /\ last' = Answer(op, "BadRequest", TRUE, ok, Present(p), {"SELECT"})
                /\ UNCHANGED <<employees, nextId>>
           ELSE IF ~EmployeeConstraintsOk(employees \cup {row})
           THEN /\ last' = Answer(op, "InternalServerError", TRUE, ok, Present(p),
                                  {"SELECT", "INSERT"})
                /\ UNCHANGED <<employees, nextId>>
           ELSE /\ last' = Answer(op, "Created", TRUE, ok, Present(p),
                                  {"SELECT", "INSERT"})
                /\ employees' = employees \cup {row}
                /\ nextId' = nextId + 1
        /\ UNCHANGED <<users, departments, now, constraints, leeway, upload, reqs, rendered>>

delete_employee(h, idn) ==
    LET op == "delete_employee"
    IN  /\ IF ~GateOk(h, now)
           THEN /\ last' = Answer(op, "Unauthorized", FALSE, TRUE, NoFields, {})
                /\ UNCHANGED employees
           ELSE IF ~IdentityNumberExists(idn)
           THEN /\ last' = Answer(op, "NotFound", TRUE, TRUE, NoFields, {"SELECT"})
                /\ UNCHANGED employees
           ELSE /\ last' = Answer(op, "Ok", TRUE, TRUE, NoFields, {"SELECT", "DELETE"})
                /\ employees' = {e \in employees : e.identity_number # idn}
        /\ UNCHANGED <<users, departments, nextId, now, constraints, leeway, upload, reqs, rendered>>

\* The order in which update_employee looks at the fields of EmployeeUpdate.
EmployeeUpdateOrder ==
    <<"identity_number", "name", "employee_image_uri", "gender", "department_id">>

\* The placeholder update_employee writes in a field's SET fragment.
EmployeePlaceholder(f) ==
    CASE f = "identity_number" -> 1
      [] f = "name" -> 2
      [] f = "employee_image_uri" -> 3
      [] f = "gender" -> 4
      [] f = "department_id" -> 5

PresentSeq(p) == SelectSeq(EmployeeUpdateOrder, LAMBDA f : p[f] # None)

\* set_clauses: one fragment per present field, then updated_at = $6.
EmployeeSetClauses(p) ==
    [i \in 1..Len(PresentSeq(p)) |->
        [col |-> PresentSeq(p)[i], ph |-> EmployeePlaceholder(PresentSeq(p)[i])]]
    \o <<[col |-> "updated_at", ph |-> 6]>>

\* " WHERE identity_number = $7"
EmployeeWherePlaceholder == 7

\* A value bound to a statement, with the type sqlx declares for it.
Bound(ty, v) == [ty |-> ty, v |-> v]

TwoDigits(n) == IF n < 10 THEN "0" \o ToString(n) ELSE ToString(n)

\* Utc::now().to_string(): the date and time of day of a reading of the clock
\* in its first month.
TimeText(t) ==
    "1970-01-" \o TwoDigits(1 + t \div SecondsPerDay) \o " "
    \o TwoDigits((t % SecondsPerDay) \div 3600) \o ":"
    \o TwoDigits((t % 3600) \div 60) \o ":"
    \o TwoDigits(t % 60) \o " UTC"

\* params: Vec<String>, the present values, now.to_string(), the path's
\* identity number.
EmployeeParams(p, t, idn) ==
    [i \in 1..Len(PresentSeq(p)) |-> Bound("text", p[PresentSeq(p)[i]])]
    \o <<Bound("text", TimeText(t)), Bound("text", idn)>>

\* .bind(&params[0]) ... .bind(&params[6])
EmployeeBindCount == 7

\* The column types of table employees (models/employee.rs).
EmployeeColumnType(c) ==
    CASE c \in {"employee_id", "department_id"} -> "uuid"
      [] c \in {"created_at", "updated_at"} -> "timestamptz"
      [] OTHER -> "text"

RECURSIVE Join(_, _)
\* [String]::join(sep)
Join(strs, sep) ==
    IF strs = <<>> THEN ""
    ELSE IF Len(strs) = 1 THEN Head(strs)
    ELSE Head(strs) \o sep \o Join(Tail(strs), sep)

\* format of a SET fragment: "<column> = $<n>"
ClauseText(c) == c.col \o " = $" \o ToString(c.ph)

\* The values bound before the statement runs: params[0] to params[6], as far
\* as params reaches.
EmployeeBinds(params) ==
    SubSeq(params, 1, IF Len(params) < EmployeeBindCount THEN Len(params)
                      ELSE EmployeeBindCount)

\* The UPDATE statement update_employee builds: its text, the assignments and
\* the WHERE placeholder the text is meant to hold, and the values bound.
EmployeeUpdateStatement(p, t, idn) ==
    [sql |-> "UPDATE employees SET"
             \o Join([i \in DOMAIN EmployeeSetClauses(p) |->
                        ClauseText(EmployeeSetClauses(p)[i])], ", ")
             \o " WHERE identity_number = $" \o ToString(EmployeeWherePlaceholder),
     clauses |-> EmployeeSetClauses(p),
     whereph |-> EmployeeWherePlaceholder,
     binds |-> EmployeeBinds(EmployeeParams(p, t, idn))]

\* The text of a well-formed UPDATE of employees by identity_number.
WellFormedEmployeeUpdate(clauses, whereph) ==
    "UPDATE employees SET "
    \o Join([i \in DOMAIN clauses |-> ClauseText(clauses[i])], ", ")
    \o " WHERE identity_number = $" \o ToString(whereph)

\* The store executing a statement built for UPDATE employees: it is refused
\* unless its text is that of a well-formed statement, every placeholder has
\* a value, and each value has its column's type; a placeholder reads the
\* value bound at its number.
StoreUpdateEmployees(stmt) ==
    LET clauses == stmt.clauses
        whereph == stmt.whereph
        binds == stmt.binds
        parses == stmt.sql = WellFormedEmployeeUpdate(clauses, whereph)
        typed == /\ whereph \in DOMAIN binds
                 /\ binds[whereph].ty = "text"
                 /\ \A i \in DOMAIN clauses :
                        /\ clauses[i].ph \in DOMAIN binds
                        /\ binds[clauses[i].ph].ty = EmployeeColumnType(clauses[i].col)
        Assigned(c) == \E i \in DOMAIN clauses : clauses[i].col = c
        ValueOf(c) == binds[clauses[CHOOSE i \in DOMAIN clauses : clauses[i].col = c].ph].v
        Set(r) == [c \in DOMAIN r |-> IF Assigned(c) THEN ValueOf(c) ELSE r[c]]
        rows == {IF e.identity_number = binds[whereph].v THEN Set(e) ELSE e :
                    e \in employees}
    IN  IF parses /\ typed /\ EmployeeConstraintsOk(rows)
        THEN [ok |-> TRUE, rows |-> rows]
        ELSE [ok |-> FALSE, rows |-> employees]

\* A body of PATCH /v1/employee with the fields of S present.
EmployeeUpdateOf(S) ==
    [f \in EmployeeFields |->
        IF f \notin S THEN None
        ELSE CASE f = "identity_number" -> "22222"
               [] f = "name" -> "Carol"
               [] f = "employee_image_uri" -> GoodUrl
               [] f = "gender" -> "female"
               [] f = "department_id" -> UuidStr(1)]

\* The bodies of PATCH /v1/employee: the empty one, partial ones, the full
\* one, and two with a rule broken.
EmployeeUpdates ==
    {EmployeeUpdateOf(S) : S \in {{}, {"name"}, {"identity_number"},
                                  {"name", "gender"}, EmployeeFields}}
    \cup
    {[EmployeeUpdateOf({"name"}) EXCEPT !.name = "Al"],
     [EmployeeUpdateOf({"employee_image_uri"}) EXCEPT !.employee_image_uri = BadUrl]}

update_employee(h, idn, p) ==
    LET op == "update_employee"
        ok == ValidEmployee(p)
        params == EmployeeParams(p, now, idn)
        res == StoreUpdateEmployees(EmployeeUpdateStatement(p, now, idn))
    IN  /\ IF ~ok
           THEN /\ last' = Answer(op, "BadRequest", GateOk(h, now), ok, Present(p), {})
                /\ UNCHANGED employees
           ELSE IF ~GateOk(h, now)
           THEN /\ last' = Answer(op, "Unauthorized", FALSE, ok, Present(p), {})
                /\ UNCHANGED employees
           ELSE IF ~IdentityNumberExists(idn)
           THEN /\ last' = Answer(op, "NotFound", TRUE, ok, Present(p), {"SELECT"})
                /\ UNCHANGED employees
           ELSE IF Len(params) < EmployeeBindCount
           THEN /\ last' = Answer(op, Panic, TRUE, ok, Present(p), {"SELECT"})
                /\ UNCHANGED employees
           ELSE IF ~res.ok
           THEN /\ last' = Answer(op, "InternalServerError", TRUE, ok, Present(p),
                                  {"SELECT", "UPDATE"})
                /\ UNCHANGED employees
           ELSE /\ employees' = res.rows
                /\ last' = Answer(op,
                                  IF \E e \in res.rows : e.identity_number = idn
                                  THEN "Ok" ELSE "NotFound",
                                  TRUE, ok, Present(p), {"SELECT", "UPDATE"})
        /\ UNCHANGED <<users, departments, nextId, now, constraints, leeway, upload, reqs, rendered>>

----------------------------------------------------------------------------
(* Registration and login: src/handlers/auth.rs *)

Emails == {"a@b.com", "A@b.com", "c@d.com"}
EmailInputs == Emails \cup {"a.b.com"}
Passwords == {"password1", "password2"}
PasswordInputs == Passwords \cup {"pass"}
Actions == {"create", "login", "delete"}

\* validator's `email` rule.
ValidEmail(s) == s \in Emails

\* SQL LOWER() / str::to_lowercase on the strings of the model.
Lower(s) == CASE s = "A@b.com" -> "a@b.com"
              [] OTHER -> s

\* fn validate_action
validate_action(action) == action = "create" \/ action = "login"

\* derive(Validate) for AuthRequest
ValidAuthRequest(email, password, action) ==
    /\ ValidEmail(email)
    /\ ValidLength(password, 8, 32)
    /\ validate_action(action)

\* argon2.hash_password / verify_password
PasswordHash(password) == "$argon2id$" \o password

\* Duration::days(7)
TokenDays == 7

\* (now + Duration::days(7)).unix_timestamp()
TokenLifetime == TokenDays * SecondsPerDay

\* The pre-check comparing the emails as they are written.
EmailExistsExact(email) == \E u \in users : u.email = email

\* The pre-check with its result dropped.
EmailCheckSkipped(email) == FALSE

\* SELECT email FROM users WHERE LOWER(email) = LOWER($1)
EmailExists(email) == \E u \in users : Lower(u.email) = Lower(email)

\* The schema's UNIQUE(email) on users, when declared.
UserUniqueOk(rows) ==
    constraints => \A a, b \in rows : a.email = b.email => a = b

NewUser(id, email, password, t) ==
    [user_id |-> id, email |-> email, password |-> PasswordHash(password),
     name |-> None, user_image_uri |-> None, company_name |-> None,
     company_image_uri |-> None, created_at |-> t, updated_at |-> t]

auth_handler(email, password, action) ==
    LET op == "auth_" \o action
        ok == ValidAuthRequest(email, password, action)
        row == NewUser(nextId, email, password, now)
        found == {u \in users : Lower(u.email) = Lower(email)}
        user == CHOOSE u \in found : TRUE
    IN  /\ IF ~ok
           THEN /\ last' = Answer(op, "BadRequest", TRUE, ok, NoFields, {})
                /\ UNCHANGED <<users, nextId>>
           ELSE IF action = "create"
           THEN /\ nextId <= MaxIds
                /\ Cardinality(users) < MaxRows
                /\ IF EmailExists(email)
                   THEN /\ last' = Answer(op, "Conflict", TRUE, ok, NoFields, {"SELECT"})
                        /\ UNCHANGED <<users, nextId>>
                   ELSE IF ~UserUniqueOk(users \cup {row})
                   THEN /\ last' = Answer(op, "InternalServerError", TRUE, ok, NoFields,
                                          {"SELECT", "INSERT"})
                        /\ UNCHANGED <<users, nextId>>
                   ELSE /\ last' = [Answer(op, "Created", TRUE, ok, NoFields,
                                           {"SELECT", "INSERT"})
                                    EXCEPT !.token = Token(UuidStr(nextId),
                                                           now + TokenLifetime, TRUE)]
                        /\ users' = users \cup {row}
                        /\ nextId' = nextId + 1
           ELSE /\ UNCHANGED <<users, nextId>>
                /\ IF found = {}
                   THEN last' = Answer(op, "NotFound", TRUE, ok, NoFields, {"SELECT"})
                   ELSE IF user.password # PasswordHash(password)
                   THEN last' = Answer(op, "Unauthorized", TRUE, ok, NoFields, {"SELECT"})
                   ELSE last' = [Answer(op, "Ok", TRUE, ok, NoFields, {"SELECT"})
                                 EXCEPT !.token = Token(UuidStr(user.user_id),
                                                        now + TokenLifetime, TRUE)]
        /\ UNCHANGED <<departments, employees, now, constraints, leeway, upload, reqs, rendered>>

----------------------------------------------------------------------------
(* sqlx::QueryBuilder as the handlers use it *)

\* QueryBuilder::new(init)
QueryBuilder(init) == [sql |-> init, binds |-> <<>>]

\* QueryBuilder::push
Push(qb, text) == [qb EXCEPT !.sql = @ \o text]

\* QueryBuilder::push_bind: the next placeholder, and its value
PushBind(qb, v) ==
    [sql |-> qb.sql \o "$" \o ToString(Len(qb.binds) + 1),
     binds |-> Append(qb.binds, v)]

\* QueryBuilder::separated(sep)
Separated(qb, sep) == [qb |-> qb, sep |-> sep, push_separator |-> FALSE]

\* Separated::push: the separator if something was pushed before, then the text
SepPush(s, text) ==
    IF s.push_separator
    THEN [s EXCEPT !.qb = Push(@, s.sep \o text)]
    ELSE [s EXCEPT !.qb = Push(@, text), !.push_separator = TRUE]

\* Separated::push_bind: the separator if something was pushed before, then
\* the placeholder
SepPushBind(s, v) ==
    [s EXCEPT !.qb = PushBind(IF s.push_separator THEN Push(@, s.sep) ELSE @, v),
              !.push_separator = TRUE]

----------------------------------------------------------------------------
(* The user profile: src/handlers/user.rs *)

UserFields == {"email", "name", "user_image_uri", "company_name", "company_image_uri"}

\* The order in which update_user_profile looks at the fields.
UserUpdateOrder ==
    <<"email", "name", "user_image_uri", "company_name", "company_image_uri">>

LocalUrl == "http://localhost/a.png"

\* The rule of each field of UserProfileUpdate.
ValidUserField(f, v) ==
    CASE f = "email" -> ValidEmail(v)
      [] f \in {"name", "company_name"} -> ValidLength(v, 4, 52)
      [] f \in {"user_image_uri", "company_image_uri"} -> ValidUrl(v)

ValidUserUpdate(p) == \A f \in Present(p) : ValidUserField(f, p[f])

\* Url::parse(uri), then: a host, and a dot in a domain host.
UrlHostOk(s) == ValidUrl(s) /\ s # LocalUrl

\* claims.sub parsed as a Uuid
SubjectOf(h) == ParseUuid(h.sub)

\* SELECT EXISTS(SELECT 1 FROM users WHERE LOWER(email) = LOWER($1) AND user_id != $2)
EmailTakenByOther(email, id) ==
    \E u \in users : Lower(u.email) = Lower(email) /\ u.user_id # id

PresentUserSeq(p) == SelectSeq(UserUpdateOrder, LAMBDA f : p[f] # None)

RECURSIVE PushAssignments(_, _, _)
\* separated.push("<column> = "); separated.push_bind(<value>), per present field
PushAssignments(s, fields, p) ==
    IF fields = <<>> THEN s
    ELSE PushAssignments(
            SepPushBind(SepPush(s, Head(fields) \o " = "), Bound("text", p[Head(fields)])),
            Tail(fields), p)

RECURSIVE Assignments(_, _)
\* "<c1> = $k, <c2> = $k+1, ..."
Assignments(cols, k) ==
    IF cols = <<>> THEN ""
    ELSE Head(cols) \o " = $" \o ToString(k)
         \o (IF Tail(cols) = <<>> THEN "" ELSE ", ")
         \o Assignments(Tail(cols), k + 1)

\* The text of a well-formed UPDATE of these columns of users by user_id.
WellFormedUserUpdate(cols) ==
    "UPDATE users SET " \o Assignments(cols, 1)
    \o " WHERE user_id = $" \o ToString(Len(cols) + 1)

\* A well-formed statement that updates the first user's row, whoever asks.
UserUpdateOfFirstRow(p, t, id) ==
    [sql |-> WellFormedUserUpdate(PresentUserSeq(p) \o <<"updated_at">>),
     binds |-> [i \in 1..Len(PresentUserSeq(p)) |-> Bound("text", p[PresentUserSeq(p)[i]])]
               \o <<Bound("timestamptz", t), Bound("uuid", 1)>>]

\* The UPDATE statement update_user_profile builds.
UserUpdateStatement(p, t, id) ==
    LET fields == PushAssignments(Separated(QueryBuilder("UPDATE users SET"), ", "),
                                  PresentUserSeq(p), p)
        stamped == SepPushBind(SepPush(fields, "updated_at = "), Bound("timestamptz", t))
    IN  PushBind(Push(stamped.qb, " WHERE user_id = "), Bound("uuid", id))

\* The column lists an UPDATE of users may assign, in the handler's order.
UserColumnLists ==
    {SelectSeq(UserUpdateOrder, LAMBDA f : f \in S) \o <<"updated_at">> :
        S \in SUBSET UserFields}

\* The column types of table users (models/user.rs).
UserColumnType(c) ==
    CASE c = "user_id" -> "uuid"
      [] c \in {"created_at", "updated_at"} -> "timestamptz"
      [] OTHER -> "text"

\* The store executing a statement built for UPDATE users: it is refused
\* unless its text parses, it has a value per placeholder, and each value has
\* its column's type.
StoreUpdateUsers(stmt) ==
    LET parses == \E cols \in UserColumnLists : stmt.sql = WellFormedUserUpdate(cols)
        cols == CHOOSE c \in UserColumnLists : stmt.sql = WellFormedUserUpdate(c)
        typed == /\ Len(stmt.binds) = Len(cols) + 1
                 /\ stmt.binds[Len(cols) + 1].ty = "uuid"
                 /\ \A i \in DOMAIN cols : stmt.binds[i].ty = UserColumnType(cols[i])
        Position(c) == CHOOSE i \in DOMAIN cols : cols[i] = c
        Set(r) == [c \in DOMAIN r |->
                    IF \E i \in DOMAIN cols : cols[i] = c
                    THEN stmt.binds[Position(c)].v ELSE r[c]]
        rows == {IF u.user_id = stmt.binds[Len(cols) + 1].v THEN Set(u) ELSE u :
                    u \in users}
    IN  IF parses /\ typed /\ UserUniqueOk(rows)
        THEN [ok |-> TRUE, rows |-> rows]
        ELSE [ok |-> FALSE, rows |-> users]

\* A body of PATCH /v1/user with the fields of S present, the email being e.
UserUpdateOf(S, e) ==
    [f \in UserFields |->
        IF f \notin S THEN None
        ELSE CASE f = "email" -> e
               [] f = "name" -> "Alice"
               [] f = "user_image_uri" -> GoodUrl
               [] f = "company_name" -> "Acme"
               [] f = "company_image_uri" -> GoodUrl]

\* The bodies of PATCH /v1/user: the empty one, partial ones, full ones, and
\* some with a rule broken.
UserUpdates ==
    {UserUpdateOf(S, "A@b.com") : S \in {{}, {"name"}, {"email"}, {"name", "company_name"},
                                         UserFields \ {"email"}}}
    \cup {UserUpdateOf(UserFields, e) : e \in Emails}
    \cup {[UserUpdateOf(UserFields, "c@d.com") EXCEPT !.user_image_uri = LocalUrl],
          [UserUpdateOf(UserFields, "c@d.com") EXCEPT !.name = "Al"],
          [UserUpdateOf({"name"}, "c@d.com") EXCEPT !.name = "Al"]}

\* The gate of the user handlers: a token, verified, whose subject is a Uuid.
UserGateOk(h, t) == GateOk(h, t) /\ SubjectOf(h) # 0

update_user_profile(h, p) ==
    LET op == "update_user_profile"
        ok == ValidUserUpdate(p)
        id == SubjectOf(h)
        stmt == UserUpdateStatement(p, now, id)
        res == StoreUpdateUsers(stmt)
    IN  /\ IF ~UserGateOk(h, now)
           THEN /\ last' = Answer(op, "Unauthorized", FALSE, ok, Present(p), {})
                /\ UNCHANGED users
           ELSE IF Present(p) = {}
           THEN /\ last' = Answer(op, "BadRequest", TRUE, ok, Present(p), {})
                /\ UNCHANGED users
           ELSE IF Present(p) # UserFields
           THEN /\ last' = Answer(op, "BadRequest", TRUE, ok, Present(p), {})
                /\ UNCHANGED users
           ELSE IF ~ok
           THEN /\ last' = Answer(op, "BadRequest", TRUE, ok, Present(p), {})
                /\ UNCHANGED users
           ELSE IF ~UrlHostOk(p.user_image_uri) \/ ~UrlHostOk(p.company_image_uri)
           THEN /\ last' = Answer(op, "BadRequest", TRUE, ok, Present(p), {})
                /\ UNCHANGED users
           ELSE IF EmailTakenByOther(p.email, id)
           THEN /\ last' = Answer(op, "Conflict", TRUE, ok, Present(p), {"SELECT"})
                /\ UNCHANGED users
           ELSE IF ~res.ok
           THEN /\ last' = Answer(op, "InternalServerError", TRUE, ok, Present(p),
                                  {"SELECT", "UPDATE"})
                /\ UNCHANGED users
           ELSE /\ users' = res.rows
                /\ last' = Answer(op,
                                  IF \E u \in res.rows : u.user_id = id
                                  THEN "Ok" ELSE "NotFound",
                                  TRUE, ok, Present(p), {"SELECT", "UPDATE"})
        /\ UNCHANGED <<departments, employees, nextId, now, constraints, leeway, upload, reqs, rendered>>

\* GetUserProfileResponse: the columns get_user_profile selects.
Profile(u) == [f \in UserFields |-> u[f]]

get_user_profile(h) ==
    LET op == "get_user_profile"
        id == SubjectOf(h)
    IN  /\ last' = IF ~UserGateOk(h, now)
                   THEN Answer(op, "Unauthorized", FALSE, TRUE, NoFields, {})
                   ELSE IF \E u \in users : u.user_id = id
                   THEN [Answer(op, "Ok", TRUE, TRUE, NoFields, {"SELECT"})
                            EXCEPT !.body = <<Profile(CHOOSE u \in users : u.user_id = id)>>]
                   ELSE Answer(op, "Unauthorized", TRUE, TRUE, NoFields, {"SELECT"})
        /\ UNCHANGED <<users, departments, employees, nextId, now, constraints, leeway, upload, reqs,
                       rendered>>

\* The tokens /v1/auth has handed out by now: one per user and time of issue.
IssuedTokens ==
    {Token(UuidStr(u.user_id), t + TokenLifetime, TRUE) :
        u \in users, t \in StartTime..now}

\* The headers a client of the user endpoints sends.
UserHeaders ==
    {NoHeader, EmptyBearer, Token(UuidStr(1), StartTime + MaxTime + TokenLifetime, FALSE),
     Token("a@b.com", StartTime + MaxTime + TokenLifetime, TRUE)}
    \cup IssuedTokens

----------------------------------------------------------------------------
(* The list endpoints' statements: get_departments, get_employees *)

\* Option<T> of a query parameter: <<>> is None, <<v>> is Some(v).
IsSome(o) == o # <<>>
Unwrap(o) == o[1]

DepartmentQueries ==
    [name : {<<>>, <<"Sal">>}, limit : {<<>>, <<5>>}, offset : {<<>>, <<0>>, <<10>>}]

EmployeeQueries ==
    [identity_number : {<<>>, <<"111">>}, name : {<<>>, <<"Ali">>},
     gender : {<<>>, <<"male">>}, department_id : {<<>>, <<UuidStr(1)>>},
     limit : {<<>>, <<5>>}, offset : {<<>>, <<10>>}]

\* The statement get_departments builds.
DepartmentListStatement(q) ==
    LET q0 == QueryBuilder("SELECT * FROM departments")
        q1 == IF IsSome(q.name)
              THEN PushBind(Push(q0, " WHERE name ILIKE "),
                            Bound("text", "%" \o Unwrap(q.name) \o "%"))
              ELSE q0
        q2 == Push(q1, " ORDER BY created_at DESC")
        q3 == IF IsSome(q.limit)
              THEN PushBind(Push(q2, " LIMIT "), Bound("int8", Unwrap(q.limit)))
              ELSE q2
    IN  IF IsSome(q.offset)
        THEN PushBind(Push(q3, " OFFSET "), Bound("int8", Unwrap(q.offset)))
        ELSE q3

\* The statement get_employees builds. `params` collects the filters' values
\* and is never bound: the text goes to sqlx::query_as as it is.
EmployeeListStatement(q) ==
    LET s0 == [sql |-> "SELECT * FROM employees", params |-> <<>>]
        s1 == IF IsSome(q.identity_number)
              THEN [sql |-> s0.sql \o " WHERE identity_number LIKE $1",
                    params |-> Append(s0.params, Unwrap(q.identity_number) \o "%")]
              ELSE s0
        s2 == IF IsSome(q.name)
              THEN [sql |-> s1.sql \o (IF s1.params # <<>> THEN " AND name LIKE $2"
                                       ELSE " WHERE name LIKE $1"),
                    params |-> Append(s1.params, "%" \o Unwrap(q.name) \o "%")]
              ELSE s1
        s3 == IF IsSome(q.gender)
              THEN [sql |-> s2.sql \o (IF s2.params # <<>> THEN " AND gender = $"
                                       ELSE " WHERE gender = $1"),
                    params |-> Append(s2.params, Unwrap(q.gender))]
              ELSE s2
        s4 == IF IsSome(q.department_id)
              THEN [sql |-> s3.sql \o (IF s3.params # <<>> THEN " AND department_id = $"
                                       ELSE " WHERE department_id = $1"),
                    params |-> Append(s3.params, Unwrap(q.department_id))]
              ELSE s3
        s5 == s4.sql \o " ORDER BY created_at DESC"
        s6 == IF IsSome(q.limit) THEN s5 \o " LIMIT " \o ToString(Unwrap(q.limit)) ELSE s5
        s7 == IF IsSome(q.offset) THEN s6 \o " OFFSET " \o ToString(Unwrap(q.offset)) ELSE s6
    IN  [sql |-> s7, binds |-> <<>>]

Rendering(op, input, stmt, clauses, aborted) ==
    [op |-> op, input |-> input, sql |-> stmt.sql, binds |-> stmt.binds,
     clauses |-> clauses, aborted |-> aborted]

RenderDepartments(q) ==
    /\ rendered' = Rendering("get_departments", q, DepartmentListStatement(q), <<>>, FALSE)
    /\ UNCHANGED <<users, departments, employees, nextId, now, constraints, leeway, upload, last, reqs>>

RenderEmployees(q) ==
    /\ rendered' = Rendering("get_employees", q, EmployeeListStatement(q), <<>>, FALSE)
    /\ UNCHANGED <<users, departments, employees, nextId, now, constraints, leeway, upload, last, reqs>>

\* update_employee from `let mut query` to the last .bind(): indexing params
\* past its end panics.
RenderEmployeeUpdate(p, idn) ==
    /\ rendered' = Rendering("update_employee", p, EmployeeUpdateStatement(p, now, idn),
                             EmployeeSetClauses(p),
                             Len(EmployeeParams(p, now, idn)) < EmployeeBindCount)
    /\ UNCHANGED <<users, departments, employees, nextId, now, constraints, leeway, upload, last, reqs>>

\* update_user_profile from QueryBuilder::new to the last push_bind.
RenderUserUpdate(p, id) ==
    /\ rendered' = Rendering("update_user_profile", p, UserUpdateStatement(p, now, id),
                             <<>>, FALSE)
    /\ UNCHANGED <<users, departments, employees, nextId, now, constraints, leeway, upload, last, reqs>>

----------------------------------------------------------------------------
(* File upload: src/handlers/file.rs *)

\* if file_size > 102400
UploadLimit == 102400

\* The size of an upload that is one byte over the limit.
OverLimit == UploadLimit + 1

\* The most chunks, and the most fields, the stream of one upload delivers.
MaxChunks == 3

\* The sizes of the chunks the multipart stream delivers.
ChunkSizes == {1, UploadLimit \div 2, UploadLimit - 1, UploadLimit, OverLimit}

\* What infer::get makes of the first bytes of the body.
BodyKinds == {"image/png", "image/jpeg", "image/gif", "unknown"}

FieldNames == {"file", "photo"}

UploadCallers == {NoHeader, Token(UuidStr(1), StartTime + MaxTime, TRUE)}

\* upload_file has no request in hand.
NoUpload ==
    [pc |-> "idle", kind |-> "unknown", sent |-> 0, chunks |-> 0, fields |-> 0,
     file_size |-> 0, file_data |-> 0, resp |-> "none", why |-> "none"]

\* if file_size > 102400
ExceedsLimitInclusive(size) == size >= UploadLimit

ExceedsLimit(size) == size > UploadLimit

\* The token gate, then Multipart::new with an empty buffer.
BeginUpload(h, kind) ==
    /\ upload.pc \in {"idle", "done"}
    /\ upload' = IF ~GateOk(h, now)
                 THEN [NoUpload EXCEPT !.pc = "done", !.kind = kind,
                                       !.resp = "Unauthorized", !.why = "token"]
                 ELSE [NoUpload EXCEPT !.pc = "body", !.kind = kind]
    /\ UNCHANGED <<users, departments, employees, nextId, now, constraints, leeway,
                   last, reqs, rendered>>

\* multipart.next() yields a field; a name other than "file" is refused.
NextField(name) ==
    /\ upload.pc = "body"
    /\ upload.fields < MaxChunks
    /\ upload' = IF name # "file"
                 THEN [upload EXCEPT !.pc = "done", !.resp = "BadRequest",
                                     !.why = "field"]
                 ELSE [upload EXCEPT !.pc = "field", !.fields = @ + 1]
    /\ UNCHANGED <<users, departments, employees, nextId, now, constraints, leeway,
                   last, reqs, rendered>>

\* field.next() yields a chunk of n bytes: counted, checked, then buffered.
Chunk(n) ==
    /\ upload.pc = "field"
    /\ upload.chunks < MaxChunks
    /\ upload' = IF ExceedsLimit(upload.file_size + n)
                 THEN [upload EXCEPT !.pc = "done", !.resp = "BadRequest",
                                     !.why = "size", !.sent = @ + n,
                                     !.chunks = @ + 1, !.file_size = @ + n]
                 ELSE [upload EXCEPT !.sent = @ + n, !.chunks = @ + 1,
                                     !.file_size = @ + n, !.file_data = @ + n]
    /\ UNCHANGED <<users, departments, employees, nextId, now, constraints, leeway,
                   last, reqs, rendered>>

\* field.next() yields None: the field is read, back to multipart.next().
EndField ==
    /\ upload.pc = "field"
    /\ upload' = [upload EXCEPT !.pc = "body"]
    /\ UNCHANGED <<users, departments, employees, nextId, now, constraints, leeway,
                   last, reqs, rendered>>

\* multipart.next() yields None: the checks on the buffer, then put_object,
\* which the object store completes or fails.
EndBody(stored) ==
    /\ upload.pc = "body"
    /\ upload' =
        IF upload.file_data = 0
        THEN [upload EXCEPT !.pc = "done", !.resp = "BadRequest", !.why = "empty"]
        ELSE IF upload.kind \notin {"image/jpeg", "image/jpg", "image/png"}
        THEN [upload EXCEPT !.pc = "done", !.resp = "BadRequest", !.why = "type"]
        ELSE IF ~stored
        THEN [upload EXCEPT !.pc = "done", !.resp = "InternalServerError",
                            !.why = "s3"]
        ELSE [upload EXCEPT !.pc = "done", !.resp = "Ok", !.why = "stored"]
    /\ UNCHANGED <<users, departments, employees, nextId, now, constraints, leeway,
                   last, reqs, rendered>>

NextUpload ==
    \/ \E h \in UploadCallers, kind \in BodyKinds : BeginUpload(h, kind)
    \/ \E name \in FieldNames : NextField(name)
    \/ \E n \in ChunkSizes : Chunk(n)
    \/ EndField
    \/ \E stored \in BOOLEAN : EndBody(stored)

----------------------------------------------------------------------------
(* The clock *)

Tick ==
    /\ now < StartTime + MaxTime
    /\ now' = now + 1
    /\ UNCHANGED <<users, departments, employees, nextId, constraints, leeway, upload, last, reqs,
                   rendered>>

----------------------------------------------------------------------------
(* The store after the migrations, before any request *)

NoStatement == [op |-> "none", input |-> <<>>, sql |-> "", binds |-> <<>>,
                clauses |-> <<>>, aborted |-> FALSE]

Init ==
    /\ users = {}
    /\ departments = {}
    /\ employees = {}
    /\ nextId = 1
    /\ now = StartTime
    /\ constraints \in BOOLEAN
    /\ leeway \in Leeways
    /\ last = NoRequest
    /\ reqs = <<>>
    /\ rendered = NoStatement
    /\ upload = NoUpload

----------------------------------------------------------------------------
(* Concurrent creation requests: a handler runs up to its next .await, and   *)
(* other requests run in between.                                            *)

Slots == {1, 2}

Idle == [op |-> "none", key |-> None, pc |-> "idle", resp |-> "none", why |-> "none"]

\* What a creation request checks and inserts: its handler and uniqueness key.
Creations ==
    [op : {"auth_create"}, key : {"a@b.com", "A@b.com"}]
    \cup [op : {"create_department"}, key : {"Sales"}]
    \cup [op : {"create_employee"}, key : {"11111"}]

InFlight == {i \in Slots : reqs[i].pc \in {"check", "insert"}}

\* The handler up to its first query: the token and the body are good.
Begin(i, c) ==
    /\ reqs[i].pc = "idle"
    /\ nextId + Cardinality(InFlight) <= MaxIds
    /\ reqs' = [reqs EXCEPT ![i] = [Idle EXCEPT !.op = c.op, !.key = c.key,
                                                !.pc = "check"]]
    /\ UNCHANGED <<users, departments, employees, nextId, now, constraints, leeway, upload, last,
                   rendered>>

\* The pre-check query of a creation handler.
KeyFound(op, key) ==
    CASE op = "auth_create" -> EmailExists(key)
      [] op = "create_department" -> DepartmentNameExists(key)
      [] op = "create_employee" -> IdentityNumberExists(key)

\* The pre-check and the answer when it finds the key.
PreCheck(i) ==
    /\ reqs[i].pc = "check"
    /\ reqs' = [reqs EXCEPT ![i] =
                    IF KeyFound(reqs[i].op, reqs[i].key)
                    THEN [@ EXCEPT !.pc = "done", !.resp = "Conflict", !.why = "precheck"]
                    ELSE [@ EXCEPT !.pc = "insert"]]
    /\ UNCHANGED <<users, departments, employees, nextId, now, constraints, leeway, upload, last,
                   rendered>>

\* The row a creation request inserts.
RowOf(op, key) ==
    CASE op = "auth_create" -> NewUser(nextId, key, "password1", now)
      [] op = "create_department" ->
            [department_id |-> nextId, name |-> key, created_at |-> now,
             updated_at |-> now]
      [] op = "create_employee" ->
            [employee_id |-> nextId, identity_number |-> key, name |-> "Alice",
             employee_image_uri |-> None, gender |-> "male", department_id |-> 1,
             created_at |-> now, updated_at |-> now]

\* Whether a row of the table holds the key itself.
KeyHeld(op, key) ==
    CASE op = "auth_create" -> \E u \in users : u.email = key
      [] op = "create_department" -> \E d \in departments : d.name = key
      [] op = "create_employee" -> \E e \in employees : e.identity_number = key

\* Why the store refuses the INSERT, if it does.
InsertRefusal(op, key) ==
    IF constraints /\ KeyHeld(op, key) THEN "unique"
    ELSE IF constraints /\ op = "create_employee" /\ ~DepartmentExists(1)
    THEN "foreign_key"
    ELSE "none"

\* How a creation handler answers an error of its INSERT: map_sqlx_error,
\* AppError::DatabaseError, ErrorInternalServerError.
InsertErrorResponse(op) == "InternalServerError"

\* An INSERT that looks for the key again and backs off when it is there.
InsertIfAbsent(i) ==
    LET op == reqs[i].op
        key == reqs[i].key
    IN  /\ reqs[i].pc = "insert"
        /\ IF KeyHeld(op, key)
           THEN /\ reqs' = [reqs EXCEPT ![i] = [@ EXCEPT !.pc = "done", !.why = "precheck",
                                                    !.resp = "Conflict"]]
                /\ UNCHANGED <<users, departments, employees, nextId>>
           ELSE /\ reqs' = [reqs EXCEPT ![i] = [@ EXCEPT !.pc = "done",
                                                    !.resp = "Created"]]
                /\ nextId' = nextId + 1
                /\ users' = IF op = "auth_create"
                            THEN users \cup {RowOf(op, key)} ELSE users
                /\ departments' = IF op = "create_department"
                                  THEN departments \cup {RowOf(op, key)} ELSE departments
                /\ employees' = IF op = "create_employee"
                                THEN employees \cup {RowOf(op, key)} ELSE employees
        /\ UNCHANGED <<now, constraints, leeway, upload, last, rendered>>

\* The INSERT of a creation handler and its answer.
Insert(i) ==
    LET op == reqs[i].op
        key == reqs[i].key
        why == InsertRefusal(op, key)
    IN  /\ reqs[i].pc = "insert"
        /\ IF why # "none"
           THEN /\ reqs' = [reqs EXCEPT ![i] = [@ EXCEPT !.pc = "done", !.why = why,
                                                    !.resp = InsertErrorResponse(op)]]
                /\ UNCHANGED <<users, departments, employees, nextId>>
           ELSE /\ reqs' = [reqs EXCEPT ![i] = [@ EXCEPT !.pc = "done",
                                                    !.resp = "Created"]]
                /\ nextId' = nextId + 1
                /\ users' = IF op = "auth_create"
                            THEN users \cup {RowOf(op, key)} ELSE users
                /\ departments' = IF op = "create_department"
                                  THEN departments \cup {RowOf(op, key)} ELSE departments
                /\ employees' = IF op = "create_employee"
                                THEN employees \cup {RowOf(op, key)} ELSE employees
        /\ UNCHANGED <<now, constraints, leeway, upload, last, rendered>>

\* The response is sent and the worker takes another request.
Respond(i) ==
    /\ reqs[i].pc = "done"
    /\ reqs' = [reqs EXCEPT ![i] = Idle]
    /\ UNCHANGED <<users, departments, employees, nextId, now, constraints, leeway, upload, last,
                   rendered>>

InitRace ==
    /\ users = {}
    /\ departments = {}
    /\ employees = {}
    /\ nextId = 1
    /\ now = StartTime
    /\ constraints \in BOOLEAN
    /\ leeway \in Leeways
    /\ last = NoRequest
    /\ reqs = [i \in Slots |-> Idle]
    /\ rendered = NoStatement
    /\ upload = NoUpload

NextRace ==
    \/ \E i \in Slots, c \in Creations : Begin(i, c)
    \/ \E i \in Slots : PreCheck(i)
    \/ \E i \in Slots : Insert(i)
    \/ \E i \in Slots : Respond(i)

SpecRace == InitRace /\ [][NextRace]_vars

----------------------------------------------------------------------------
(* Concurrent requests on existing rows: the existence check, the employee   *)
(* count and the statement are separate queries with an .await in between.   *)

\* The requests on rows: the handler and the path argument.
RowRequests ==
    [op : {"delete_department", "update_department"}, key : {UuidStr(1)}]
    \cup [op : {"delete_employee"}, key : {"11111"}]

\* The handler up to its first query: the token, the body and the path are good.
BeginRow(i, r) ==
    /\ reqs[i].pc = "idle"
    /\ reqs' = [reqs EXCEPT ![i] = [Idle EXCEPT !.op = r.op, !.key = r.key,
                                                !.pc = "find"]]
    /\ UNCHANGED <<users, departments, employees, nextId, now, constraints, leeway, upload, last,
                   rendered>>

\* The existence check: fetch_optional, is_none() -> NotFound.
RowFound(op, key) ==
    IF op = "delete_employee" THEN IdentityNumberExists(key)
    ELSE DepartmentExists(ParseUuid(key))

FindRow(i) ==
    /\ reqs[i].pc = "find"
    /\ reqs' = [reqs EXCEPT ![i] =
                    IF ~RowFound(reqs[i].op, reqs[i].key)
                    THEN [@ EXCEPT !.pc = "done", !.resp = "NotFound", !.why = "check"]
                    ELSE IF reqs[i].op = "delete_department"
                    THEN [@ EXCEPT !.pc = "count"]
                    ELSE [@ EXCEPT !.pc = "write"]]
    /\ UNCHANGED <<users, departments, employees, nextId, now, constraints, leeway, upload, last,
                   rendered>>

\* delete_department: the employees of the department, !is_empty() -> Conflict.
CountEmployees(i) ==
    /\ reqs[i].pc = "count"
    /\ reqs' = [reqs EXCEPT ![i] =
                    IF EmployeesOf(ParseUuid(reqs[i].key)) # {}
                    THEN [@ EXCEPT !.pc = "done", !.resp = "Conflict", !.why = "check"]
                    ELSE [@ EXCEPT !.pc = "write"]]
    /\ UNCHANGED <<users, departments, employees, nextId, now, constraints, leeway, upload, last,
                   rendered>>

\* The name an update_department request carries.
RowUpdateName == "Legal"

\* The tables after the DELETE or UPDATE of a request on a row.
RowsAfter(op, key) ==
    CASE op = "delete_department" ->
            [departments |-> {d \in departments : d.department_id # ParseUuid(key)},
             employees |-> employees]
      [] op = "update_department" ->
            [departments |-> {IF d.department_id = ParseUuid(key)
                              THEN DepartmentUpdated(d, RowUpdateName, now)
                              ELSE d : d \in departments},
             employees |-> employees]
      [] op = "delete_employee" ->
            [departments |-> departments,
             employees |-> {e \in employees : e.identity_number # key}]

\* Whether the store refuses the statement of a request on a row.
RowRefused(op, key) ==
    CASE op = "delete_department" -> ~DepartmentDeleteOk(ParseUuid(key))
      [] op = "update_department" -> ~DepartmentUniqueOk(RowsAfter(op, key).departments)
      [] op = "delete_employee" -> FALSE

\* The answer after a statement that ran: the result of execute() is dropped.
RowWriteResponse(affected) == "Ok"

\* The DELETE or UPDATE and the answer: an error of the store -> 500.
WriteRow(i) ==
    LET op == reqs[i].op
        key == reqs[i].key
        affected == IF RowFound(op, key) THEN 1 ELSE 0
    IN  /\ reqs[i].pc = "write"
        /\ IF RowRefused(op, key)
           THEN /\ reqs' = [reqs EXCEPT ![i] = [@ EXCEPT !.pc = "done", !.why = "refused",
                                                    !.resp = "InternalServerError"]]
                /\ UNCHANGED <<departments, employees>>
           ELSE /\ reqs' = [reqs EXCEPT ![i] =
                               [@ EXCEPT !.pc = "done",
                                         !.why = IF affected = 0 THEN "gone" ELSE "none",
                                         !.resp = RowWriteResponse(affected)]]
                /\ departments' = RowsAfter(op, key).departments
                /\ employees' = RowsAfter(op, key).employees
        /\ UNCHANGED <<users, nextId, now, constraints, leeway, upload, last, rendered>>

\* The employee creation that runs beside the requests on rows.
RowCreation == [op |-> "create_employee", key |-> "11111"]

NextRows ==
    \/ \E name \in DepartmentNames :
            create_department(Token(UuidStr(1), StartTime + MaxTime, TRUE), name)
    \/ \E i \in Slots : Begin(i, RowCreation)
    \/ \E i \in Slots : PreCheck(i)
    \/ \E i \in Slots : Insert(i)
    \/ \E i \in Slots, r \in RowRequests : BeginRow(i, r)
    \/ \E i \in Slots : FindRow(i)
    \/ \E i \in Slots : CountEmployees(i)
    \/ \E i \in Slots : WriteRow(i)
    \/ \E i \in Slots : Respond(i)

SpecRows == InitRace /\ [][NextRows]_vars

\* Requests to the department and employee endpoints, one at a time, within
\* one reading of the clock.
Next ==
    \/ \E h \in OrgHeaders, name \in DepartmentNameInputs : create_department(h, name)
    \/ \E h \in OrgHeaders, path \in PathIds, name \in DepartmentNameInputs :
            update_department(h, path, name)
    \/ \E h \in OrgHeaders, path \in PathIds : delete_department(h, path)
    \/ \E h \in OrgHeaders, p \in NewEmployees : create_employee(h, p)
    \/ \E h \in OrgHeaders, idn \in IdentityNumbers, p \in EmployeeUpdates :
            update_employee(h, idn, p)
    \/ \E h \in OrgHeaders, idn \in IdentityNumbers : delete_employee(h, idn)

Spec == Init /\ [][Next]_vars

\* Authorized and unauthenticated callers of the department and employee
\* endpoints, with bodies that pass validation.
OrgCallers == {NoHeader, Token(UuidStr(1), StartTime + MaxTime, TRUE)}

DepartmentPaths == {UuidStr(n) : n \in Ids}

\* Requests to /v1/department and /v1/employee, one at a time, within one
\* reading of the clock.
NextOrg ==
    \/ \E h \in OrgCallers, name \in DepartmentNames : create_department(h, name)
    \/ \E h \in OrgCallers, path \in DepartmentPaths, name \in DepartmentNames :
            update_department(h, path, name)
    \/ \E h \in OrgCallers, path \in DepartmentPaths : delete_department(h, path)
    \/ \E h \in OrgCallers, p \in ValidNewEmployees : create_employee(h, p)
    \/ \E h \in OrgCallers, idn \in IdentityNumbers :
            update_employee(h, idn, EmployeeUpdateOf(EmployeeFields))
    \/ \E h \in OrgCallers, idn \in IdentityNumbers : delete_employee(h, idn)

SpecOrg == Init /\ [][NextOrg]_vars

\* Requests to /v1/auth and /v1/user, one at a time.
NextUser ==
    \/ \E e \in EmailInputs, pw \in PasswordInputs, a \in Actions : auth_handler(e, pw, a)
    \/ \E h \in UserHeaders, p \in UserUpdates : update_user_profile(h, p)
    \/ \E h \in UserHeaders : get_user_profile(h)
    \/ Tick

SpecUser == Init /\ [][NextUser]_vars

\* The statements the handlers render, for every choice of present fields.
NextRender ==
    \/ \E q \in DepartmentQueries : RenderDepartments(q)
    \/ \E q \in EmployeeQueries : RenderEmployees(q)
    \/ \E S \in SUBSET EmployeeFields, idn \in IdentityNumbers :
            RenderEmployeeUpdate(EmployeeUpdateOf(S), idn)
    \/ \E S \in SUBSET UserFields, id \in Ids :
            RenderUserUpdate(UserUpdateOf(S, "c@d.com"), id)

SpecRender == Init /\ [][NextRender]_vars

----------------------------------------------------------------------------
(* A token from registration, presented as the clock moves past its expiry *)

\* The token /v1/auth returned to each user on registration.
RegistrationTokens ==
    {Token(UuidStr(u.user_id), u.created_at + TokenLifetime, TRUE) : u \in users}

\* The readings of the clock around the expiry of a token issued within
\* MaxTime of the start: the expiry, the second after, the end of each leeway
\* and the second after that.
Instants ==
    {StartTime + t + d :
        t \in 0..MaxTime,
        d \in {0, TokenLifetime, TokenLifetime + 1}
              \cup {TokenLifetime + l : l \in Leeways}
              \cup {TokenLifetime + l + 1 : l \in Leeways}}

\* Time passes between two requests.
Advance ==
    /\ \E t \in Instants : t > now /\ now' = t
    /\ UNCHANGED <<users, departments, employees, nextId, constraints, leeway, upload, last,
                   reqs, rendered>>

NextToken ==
    \/ \E e \in {"a@b.com", "c@d.com"} : auth_handler(e, "password1", "create")
    \/ \E h \in RegistrationTokens : get_user_profile(h)
    \/ Advance

SpecToken == Init /\ [][NextToken]_vars

SpecUpload == Init /\ [][NextUpload]_vars

\* Creations and updates of rows of the three tables as the clock moves.
NextStamp ==
    \/ \E name \in DepartmentNames :
            create_department(Token(UuidStr(1), StartTime + MaxTime, TRUE), name)
    \/ \E path \in DepartmentPaths, name \in DepartmentNames :
            update_department(Token(UuidStr(1), StartTime + MaxTime, TRUE), path, name)
    \/ create_employee(Token(UuidStr(1), StartTime + MaxTime, TRUE), BaseEmployee)
    \/ update_employee(Token(UuidStr(1), StartTime + MaxTime, TRUE), "11111",
                       EmployeeUpdateOf(EmployeeFields))
    \/ auth_handler("a@b.com", "password1", "create")
    \/ \E h \in RegistrationTokens :
            update_user_profile(h, UserUpdateOf(UserFields, "c@d.com"))
    \/ Tick

SpecStamp == Init /\ [][NextStamp]_vars

----------------------------------------------------------------------------
(* The list endpoints answering: get_departments, get_employees *)

\* `name ILIKE '%x%'` on the names of the model: x within the name, whatever
\* the case.
ILike(x, name) == x = name \/ (x = "sal" /\ name = "Sales")

\* ORDER BY created_at DESC, then OFFSET and LIMIT: the pages the store may
\* return, rows created at the same instant coming in any order.
Page(rows, limit, offset) ==
    LET n == Cardinality(rows)
        orders == {s \in [1..n -> rows] :
                    \A i, j \in 1..n :
                        i < j => (s[i] # s[j] /\ s[i].created_at >= s[j].created_at)}
        from == IF IsSome(offset) THEN Unwrap(offset) + 1 ELSE 1
        upto == IF IsSome(limit) /\ from + Unwrap(limit) - 1 < n
                THEN from + Unwrap(limit) - 1 ELSE n
    IN  {[i \in 1..(IF upto < from THEN 0 ELSE upto - from + 1) |-> s[from + i - 1]] :
            s \in orders}

\* get_departments: the token, the statement with its values bound, the rows.
get_departments(h, q) ==
    LET op == "get_departments"
        stmt == DepartmentListStatement(q)
        found == IF IsSome(q.name)
                 THEN {d \in departments : ILike(Unwrap(q.name), d.name)}
                 ELSE departments
    IN  /\ IF ~GateOk(h, now)
           THEN last' = Answer(op, "Unauthorized", FALSE, TRUE, NoFields, {})
           ELSE \E page \in Page(found, q.limit, q.offset) :
                    last' = [Answer(op, "Ok", TRUE, TRUE, NoFields, {"SELECT"})
                                EXCEPT !.body = page]
        /\ UNCHANGED <<users, departments, employees, nextId, now, constraints, leeway,
                       upload, reqs, rendered>>

\* get_employees: the token, the statement as EmployeeListStatement writes it,
\* sent with the values it binds; the store refuses a text that names a
\* placeholder it has no value for, and the handler answers 500 "Query failed".
get_employees(h, q) ==
    LET op == "get_employees"
        stmt == EmployeeListStatement(q)
        filters == {f \in {"identity_number", "name", "gender", "department_id"} :
                        IsSome(q[f])}
        prepared == Len(stmt.binds) = Cardinality(filters)
    IN  /\ IF ~GateOk(h, now)
           THEN last' = Answer(op, "Unauthorized", FALSE, TRUE, NoFields, {})
           ELSE IF ~prepared
           THEN last' = Answer(op, "InternalServerError", TRUE, TRUE, NoFields, {"SELECT"})
           ELSE \E page \in Page(employees, q.limit, q.offset) :
                    last' = [Answer(op, "Ok", TRUE, TRUE, NoFields, {"SELECT"})
                                EXCEPT !.body = page]
        /\ UNCHANGED <<users, departments, employees, nextId, now, constraints, leeway,
                       upload, reqs, rendered>>

\* Creations and listings of departments and employees, one request at a time.
NextList ==
    \/ \E h \in OrgCallers, name \in DepartmentNames : create_department(h, name)
    \/ \E h \in OrgCallers, p \in ValidNewEmployees : create_employee(h, p)
    \/ \E h \in OrgCallers,
          q \in [name : {<<>>, <<"sal">>} \cup {<<n>> : n \in DepartmentNames},
                 limit : {<<>>, <<1>>}, offset : {<<>>, <<1>>}] :
            get_departments(h, q)
    \/ \E h \in OrgCallers,
          q \in [identity_number : {<<>>} \cup {<<n>> : n \in IdentityNumbers},
                 name : {<<>>, <<"Ali">>}, gender : {<<>>}, department_id : {<<>>},
                 limit : {<<>>, <<1>>}, offset : {<<>>, <<1>>}] :
            get_employees(h, q)

SpecList == Init /\ [][NextList]_vars

----------------------------------------------------------------------------
(* Two users and their profiles *)

\* The headers sent to /v1/user: each user's token from registration, none,
\* a token for the first user that fails verification, and a verified token
\* whose subject is no Uuid.
ProfileCallers ==
    RegistrationTokens
    \cup {NoHeader, Token(UuidStr(1), StartTime + TokenLifetime, FALSE),
          Token("a@b.com", StartTime + TokenLifetime, TRUE)}

\* Registrations, then reads and updates of profiles, one request at a time.
NextProfile ==
    \/ \E e \in {"a@b.com", "c@d.com"} : auth_handler(e, "password1", "create")
    \/ \E h \in ProfileCallers : get_user_profile(h)
    \/ \E h \in ProfileCallers, p \in UserUpdates : update_user_profile(h, p)

SpecProfile == Init /\ [][NextProfile]_vars

----------------------------------------------------------------------------
(* Properties *)

ProtectedOps ==
    {"get_user_profile", "update_user_profile", "create_department",
     "update_department", "delete_department", "create_employee", "update_employee",
     "delete_employee"}

\* C1: on a bearer-protected endpoint a request whose token is missing, empty
\* or fails verification is answered Unauthorized, whatever its body, and no
\* statement reaches the store.
C1_AuthBeforeValidation ==
    (last.op \in ProtectedOps /\ ~last.gate)
        => (last.resp = "Unauthorized" /\ last.stmts = {})

\* C2: an authorized update (user PATCH, employee PATCH) of an existing row
\* whose payload has no field present is answered BadRequest and issues no
\* UPDATE.
C2_EmptyUpdateRejected ==
    (/\ last.op \in {"update_user_profile", "update_employee"}
     /\ last.gate
     /\ last.present = {}
     /\ last.resp # "NotFound")
        => (last.resp = "BadRequest" /\ "UPDATE" \notin last.stmts)

\* The filters of a list endpoint in the handler's order: the field, its
\* condition, and what is put around the value that is bound.
ListFilters(op) ==
    IF op = "get_departments"
    THEN <<[f |-> "name", cond |-> "name ILIKE ", pre |-> "%", post |-> "%"]>>
    ELSE <<[f |-> "identity_number", cond |-> "identity_number LIKE ", pre |-> "",
            post |-> "%"],
           [f |-> "name", cond |-> "name LIKE ", pre |-> "%", post |-> "%"],
           [f |-> "gender", cond |-> "gender = ", pre |-> "", post |-> ""],
           [f |-> "department_id", cond |-> "department_id = ", pre |-> "",
            post |-> ""]>>

PresentFilters(op, q) == SelectSeq(ListFilters(op), LAMBDA x : IsSome(q[x.f]))

RECURSIVE WhereText(_, _)
\* " WHERE <cond>$1 AND <cond>$2 ...": a placeholder per filter, by position
WhereText(filters, k) ==
    IF k > Len(filters) THEN ""
    ELSE (IF k = 1 THEN " WHERE " ELSE " AND ")
         \o filters[k].cond \o "$" \o ToString(k) \o WhereText(filters, k + 1)

\* The statement of a list endpoint with one placeholder per present filter
\* and supplied pagination value, numbered by position.
PositionalListSql(op, q) ==
    LET n == Len(PresentFilters(op, q))
    IN  "SELECT * FROM "
        \o (IF op = "get_departments" THEN "departments" ELSE "employees")
        \o WhereText(PresentFilters(op, q), 1)
        \o " ORDER BY created_at DESC"
        \o (IF IsSome(q.limit) THEN " LIMIT $" \o ToString(n + 1) ELSE "")
        \o (IF IsSome(q.offset)
            THEN " OFFSET $" \o ToString(n + 1 + (IF IsSome(q.limit) THEN 1 ELSE 0))
            ELSE "")

\* The values such a statement binds: each filter's own, then limit, offset.
PositionalListValues(op, q) ==
    [i \in 1..Len(PresentFilters(op, q)) |->
        PresentFilters(op, q)[i].pre \o Unwrap(q[PresentFilters(op, q)[i].f])
        \o PresentFilters(op, q)[i].post]
    \o q.limit \o q.offset

\* C3: a list statement binds one value per present filter and supplied
\* pagination value, its placeholders are numbered by position among the
\* present ones, and each filter's placeholder gets that filter's value.
C3_ListParameters ==
    rendered.op \in {"get_departments", "get_employees"}
        => /\ Len(rendered.binds) = Len(PositionalListValues(rendered.op, rendered.input))
           /\ rendered.sql = PositionalListSql(rendered.op, rendered.input)
           /\ [i \in DOMAIN rendered.binds |-> rendered.binds[i].v]
                = PositionalListValues(rendered.op, rendered.input)

\* C4: for a non-empty set of present fields update_employee numbers each SET
\* placeholder by the field's position among the present ones, binds as many
\* values as there are placeholders, each placeholder's value being that of
\* its column, and does not abort.
C4_UpdatePlaceholders ==
    (rendered.op = "update_employee" /\ Present(rendered.input) # {})
        => /\ ~rendered.aborted
           /\ \A i \in DOMAIN rendered.clauses : rendered.clauses[i].ph = i
           /\ Len(rendered.binds) = Len(rendered.clauses) + 1
           /\ \A i \in DOMAIN rendered.clauses :
                rendered.clauses[i].col \in EmployeeFields =>
                    /\ rendered.clauses[i].ph \in DOMAIN rendered.binds
                    /\ rendered.binds[rendered.clauses[i].ph].v
                        = rendered.input[rendered.clauses[i].col]

\* The row an employee PATCH with payload p at time t makes of row e.
PatchedEmployee(e, p, t) ==
    [c \in DOMAIN e |->
        IF c = "updated_at" THEN t
        ELSE IF c \in Present(p)
        THEN (IF c = "department_id" THEN ParseUuid(p[c]) ELSE p[c])
        ELSE e[c]]

\* C5: a valid employee PATCH by an authorized caller that names an existing
\* employee and supplies the fields S changes, on that row, the columns of S
\* and updated_at, and nothing else in the table.
C5_PatchChangesOnlySupplied ==
    [][\A h \in OrgHeaders, idn \in IdentityNumbers, p \in EmployeeUpdates :
        LET rows == {IF e.identity_number = idn THEN PatchedEmployee(e, p, now) ELSE e :
                        e \in employees}
        IN  (/\ update_employee(h, idn, p)
             /\ GateOk(h, now)
             /\ ValidEmployee(p)
             /\ Present(p) # {}
             /\ IdentityNumberExists(idn)
             /\ EmployeeConstraintsOk(rows))
                => (employees' = rows /\ last'.resp \in {"Ok", "NotFound"})]_vars

\* Emails equal but for the case of their letters.
SameEmail(a, b) ==
    LET Fold(x) == IF x = "A@b.com" THEN "a@b.com" ELSE x
    IN  Fold(a) = Fold(b)

\* The row a user PATCH with payload p at time t makes of row u.
PatchedUser(u, p, t) ==
    [c \in DOMAIN u |->
        IF c = "updated_at" THEN t
        ELSE IF c \in Present(p) THEN p[c]
        ELSE u[c]]

\* C6: a user PATCH with a non-empty proper subset of the profile fields, each
\* valid, is accepted and changes the supplied fields and updated_at of the
\* caller's row and nothing else.
C6_PartialProfileUpdate ==
    [][\A h \in UserHeaders, p \in UserUpdates :
        LET id == SubjectOf(h)
            rows == {IF u.user_id = id THEN PatchedUser(u, p, now) ELSE u : u \in users}
        IN  (/\ update_user_profile(h, p)
             /\ UserGateOk(h, now)
             /\ Present(p) # {}
             /\ Present(p) # UserFields
             /\ ValidUserUpdate(p)
             /\ \A f \in Present(p) \cap {"user_image_uri", "company_image_uri"} :
                    UrlHostOk(p[f])
             /\ "email" \in Present(p) =>
                    ~\E u \in users : SameEmail(u.email, p.email) /\ u.user_id # id)
                => (last'.resp = "Ok" /\ users' = rows)]_vars

\* C7: no two user rows have emails that are equal ignoring case.
C7_EmailsUniqueIgnoringCase ==
    \A a, b \in users : SameEmail(a.email, b.email) => a = b

\* Two users are registered and a profile update to the other's email, in
\* another case or not, was refused.
C7_Witness ==
    /\ Cardinality(users) = 2
    /\ last.op = "update_user_profile"
    /\ last.resp = "Conflict"

\* C8: a valid registration of an email no user holds is answered Created
\* with a token and adds one user row with that email; one of an email a user
\* holds is answered Conflict with no token and leaves the table as it was.
C8_RegisterThenConflict ==
    [][\A e \in Emails, pw \in Passwords :
        auth_handler(e, pw, "create") =>
            IF \E u \in users : SameEmail(u.email, e)
            THEN /\ last'.resp = "Conflict"
                 /\ last'.token = NoHeader
                 /\ users' = users
            ELSE /\ last'.resp = "Created"
                 /\ last'.token # NoHeader
                 /\ Cardinality(users') = Cardinality(users) + 1
                 /\ \E u \in users' \ users : u.email = e /\ users' = users \cup {u}]_vars

\* A registration was refused with Conflict on a store that holds a user.
C8_Witness ==
    /\ last.op = "auth_create"
    /\ last.resp = "Conflict"
    /\ last.token = NoHeader
    /\ users # {}

\* The rows of a creation's table that hold the key.
RowsWithKey(op, key, us, ds, es) ==
    CASE op = "auth_create" -> {u \in us : u.email = key}
      [] op = "create_department" -> {d \in ds : d.name = key}
      [] op = "create_employee" -> {e \in es : e.identity_number = key}

\* C9: nothing in the application keeps a creation that passed its pre-check
\* from inserting a key that another request has inserted meanwhile: such an
\* INSERT adds a second row with the key exactly when the schema declares no
\* constraint.
C9_OnlyStoreExcludes ==
    [][\A i \in Slots :
        (/\ reqs[i].pc = "insert"
         /\ reqs'[i].pc = "done"
         /\ RowsWithKey(reqs[i].op, reqs[i].key, users, departments, employees) # {})
            => ((/\ reqs'[i].resp = "Created"
                 /\ Cardinality(RowsWithKey(reqs[i].op, reqs[i].key,
                                             users', departments', employees')) = 2)
                <=> ~constraints)]_vars

\* Two requests creating the same key have both passed the pre-check and
\* neither has inserted.
C9_Witness ==
    /\ reqs[1].pc = "insert"
    /\ reqs[2].pc = "insert"
    /\ reqs[1].op = reqs[2].op
    /\ reqs[1].key = reqs[2].key

\* C10: a creation refused for its uniqueness key, by the pre-check or by the
\* store's unique constraint, is answered Conflict.
C10_ConflictOnBothPaths ==
    \A i \in Slots :
        (reqs[i].pc = "done" /\ reqs[i].why \in {"precheck", "unique"})
            => reqs[i].resp = "Conflict"


ClientErrors == {"BadRequest", "NotFound", "Conflict"}

\* C12: an authorized employee create whose department_id names no existing
\* department is answered with a client error and writes nothing, and the
\* employees it leaves all reference existing departments.
C12_DepartmentMustExist ==
    [][\A h \in OrgCallers, p \in ValidNewEmployees :
        (/\ create_employee(h, p)
         /\ h # NoHeader
         /\ ~\E d \in departments : UuidStr(d.department_id) = p.department_id)
            => /\ last'.resp \in ClientErrors
               /\ employees' = employees
               /\ \A e \in employees' :
                    \E d \in departments' : d.department_id = e.department_id]_vars

C15_ZeroRowsIsNotFound ==
    /\ \A i \in Slots :
        (reqs[i].pc = "done" /\ reqs[i].why = "gone") => reqs[i].resp = "NotFound"
    /\ \A i, j \in Slots :
        (/\ i # j
         /\ reqs[i].pc = "done" /\ reqs[j].pc = "done"
         /\ reqs[i].op = reqs[j].op /\ reqs[i].key = reqs[j].key
         /\ reqs[i].op \in {"delete_department", "delete_employee"}
         /\ reqs[i].why # "check" /\ reqs[j].why # "check")
            => ~(reqs[i].resp = "Ok" /\ reqs[j].resp = "Ok")

\* C16: an authorized department update with a valid name answers NotFound
\* when the target is absent, Conflict (writing nothing) when another
\* department has the new name, and the departments it leaves have distinct
\* names.
C16_UpdateKeepsNamesUnique ==
    [][\A h \in OrgCallers, path \in DepartmentPaths, name \in DepartmentNames :
        (update_department(h, path, name) /\ h # NoHeader)
            => /\ (~\E d \in departments : UuidStr(d.department_id) = path)
                    => last'.resp = "NotFound"
               /\ (/\ \E d \in departments : UuidStr(d.department_id) = path
                   /\ \E d \in departments :
                        d.name = name /\ UuidStr(d.department_id) # path)
                    => (last'.resp = "Conflict" /\ departments' = departments)
               /\ \A a, b \in departments' : a.name = b.name => a = b]_vars

\* C17: a request carrying the token of a registration is answered
\* Unauthorized exactly when the clock has passed the token's expiry, the
\* time of registration plus seven days.
C17_ExpiredMeansRejected ==
    [][\A h \in RegistrationTokens :
        get_user_profile(h)
            => (last'.resp = "Unauthorized" <=> now > h.exp)]_vars

\* A correctly signed, unexpired token whose subject is not a user id.
MalformedSubject(h) ==
    /\ h.kind = "token" /\ h.signed /\ h.exp >= now
    /\ ~\E n \in Ids : h.sub = UuidStr(n)

\* C18: a request to a department or employee endpoint with a correctly
\* signed, unexpired token whose subject is not a well-formed user id is
\* answered Unauthorized, issues no statement and changes no table.
C18_MalformedSubjectRejected ==
    [][\A h \in OrgHeaders :
        (/\ MalformedSubject(h)
         /\ \/ \E name \in DepartmentNames : create_department(h, name)
            \/ \E path \in DepartmentPaths, name \in DepartmentNames :
                    update_department(h, path, name)
            \/ \E path \in DepartmentPaths : delete_department(h, path)
            \/ \E p \in ValidNewEmployees : create_employee(h, p)
            \/ \E idn \in IdentityNumbers : delete_employee(h, idn))
            => /\ last'.resp = "Unauthorized"
               /\ last'.stmts = {}
               /\ departments' = departments
               /\ employees' = employees]_vars

\* C19: however an upload of image bytes is split into chunks and fields, the
\* handler never buffers more than 102,400 bytes, refuses the upload at the
\* first chunk that carries the bytes received past 102,400, and passes an
\* upload of at most 102,400 bytes on to the object store.
C19_UploadSizeBoundary ==
    /\ upload.file_data <= 102400
    /\ (upload.pc \in {"body", "field"}) => upload.sent <= 102400
    /\ (upload.pc = "done" /\ upload.sent > 102400)
            => (upload.resp = "BadRequest" /\ upload.why = "size")
    /\ (/\ upload.pc = "done"
        /\ upload.kind \in {"image/png", "image/jpeg"}
        /\ upload.why \notin {"token", "field"}
        /\ upload.sent \in 1..102400)
            => \/ upload.resp = "Ok"
               \/ upload.resp = "InternalServerError" /\ upload.why = "s3"

\* An upload of exactly 102,400 bytes that came in several chunks was stored.
C19_Witness ==
    /\ upload.pc = "done"
    /\ upload.resp = "Ok"
    /\ upload.sent = 102400
    /\ upload.chunks > 1

C21_UserUpdateRendering ==
    rendered.op = "update_user_profile"
        => LET cols == PresentUserSeq(rendered.input) \o <<"updated_at">>
           IN  /\ rendered.sql = WellFormedUserUpdate(cols)
               /\ Len(rendered.binds) = Len(cols) + 1
               /\ \A i \in 1..(Len(cols) - 1) :
                    rendered.binds[i].v = rendered.input[cols[i]]
               /\ rendered.binds[Len(rendered.binds)].ty = "uuid"
               /\ rendered.binds[Len(rendered.binds)].v \in Ids

\* The list request that selects one entity by its identifier.
ByName(name) == [name |-> <<name>>, limit |-> <<>>, offset |-> <<>>]
ByIdentityNumber(idn) ==
    [identity_number |-> <<idn>>, name |-> <<>>, gender |-> <<>>,
     department_id |-> <<>>, limit |-> <<>>, offset |-> <<>>]

\* The department half of the round trip: a created department is stored
\* under the name submitted, and listing by that name answers Ok with the row.
DepartmentRoundTrip(h) ==
    /\ \A name \in DepartmentNames :
        (create_department(h, name) /\ last'.resp = "Created")
            => \E d \in departments' \ departments : d.name = name
    /\ \A d \in departments :
        (get_departments(h, ByName(d.name)) /\ GateOk(h, now))
            => /\ last'.resp = "Ok"
               /\ \E i \in DOMAIN last'.body : last'.body[i] = d

\* The employee half: a created employee is stored with the values submitted,
\* and listing by its identity number answers Ok with the row.
EmployeeRoundTrip(h) ==
    /\ \A p \in ValidNewEmployees :
        (create_employee(h, p) /\ last'.resp = "Created")
            => \E e \in employees' \ employees :
                /\ \A f \in EmployeeFields \ {"department_id"} : e[f] = p[f]
                /\ UuidStr(e.department_id) = p.department_id
    /\ \A e \in employees :
        (get_employees(h, ByIdentityNumber(e.identity_number)) /\ GateOk(h, now))
            => /\ last'.resp = "Ok"
               /\ \E i \in DOMAIN last'.body : last'.body[i] = e

\* The round trip holds of departments.
DepartmentsRoundTrip == [][\A h \in OrgCallers : DepartmentRoundTrip(h)]_vars

\* C22: a department or employee just created is stored with the values
\* submitted, and a listing filtered by its identifier (the department's
\* name, the employee's identity number) answers Ok with that row, whose
\* fields are the submitted ones.
C22_CreateThenList ==
    [][\A h \in OrgCallers : DepartmentRoundTrip(h) /\ EmployeeRoundTrip(h)]_vars


\* C23: with requests one at a time no two employee rows share an identity
\* number; a create whose identity number is held already, and a PATCH that
\* changes the identity number to one held by another employee, are answered
\* Conflict and leave the table as it is.
C23_IdentityNumbersUnique ==
    [][/\ \A a, b \in employees' : a.identity_number = b.identity_number => a = b
       /\ \A h \in OrgCallers :
            /\ \A p \in ValidNewEmployees :
                (create_employee(h, p) /\ GateOk(h, now)
                    /\ IdentityNumberExists(p.identity_number))
                    => (last'.resp = "Conflict" /\ employees' = employees)
            /\ \A idn \in IdentityNumbers :
                LET p == EmployeeUpdateOf(EmployeeFields)
                IN  (update_employee(h, idn, p) /\ GateOk(h, now)
                        /\ IdentityNumberExists(idn)
                        /\ p.identity_number # idn
                        /\ IdentityNumberExists(p.identity_number))
                        => (last'.resp = "Conflict" /\ employees' = employees)]_vars

\* A token that verifies and whose subject is the identifier of row u.
TokenOf(h, u) == h.signed /\ h.sub = UuidStr(u.user_id)

====
